---- MODULE Spec2Model ----
(***************************************************************************)
(* A model of dnd_rpg.cpp: the Dice, Item, Inventory, Character, Player    *)
(* and Enemy classes as pure operators over records, and GameEngine (run,  *)
(* game_loop, generate_random_event, battle and the four other events) as  *)
(* a state machine whose steps are the stretches of code between two       *)
(* blocking reads of the console.                                          *)
(***************************************************************************)
EXTENDS Integers, Sequences, FiniteSets, TLC

VARIABLES
    pc,               \* where GameEngine is blocked (see the actions)
    player,           \* GameEngine::player (NoPlayer: the pointer is null)
    inventory,        \* Player::inventory: [items, gold]
    enemy,            \* the enemy of the running battle (NoEnemy: none)
    enemy_stunned,    \* the local of GameEngine::battle
    turns,            \* GameEngine::turns
    dragon_defeated,  \* GameEngine::dragon_defeated
    battle_end,       \* how GameEngine::battle was last left ("none": not left)
    ending,           \* which closing text game_loop printed ("none": neither)
    fled_boss,        \* history: the event before was a boss battle left by "Escaped!"
    last              \* history: the last call made: [op, arg, out]

vars == <<pc, player, inventory, enemy, enemy_stunned, turns, dragon_defeated,
          battle_end, ending, fled_boss, last>>

(***************************************************************************)
(* Bounds of the model.                                                    *)
(***************************************************************************)
\* generate_random_event is not entered once turns has reached this (Spec).
MaxTurns == 1
\* generate_random_event is not entered once turns has reached this (SpecLate).
MaxLateTurns == 22
\* In a campaign, a die whose face enters the arithmetic shows its largest face
\* and every multiple of this.
DieStep == 20
\* Inventory::add_item is not called through the class interface on a list this long.
MaxItems == 3
\* The health of a hero or monster that was hurt before the call (SpecAttack)
LowHealth == 10
\* The turns of a campaign of story events and item-only battles (SpecItem)
MaxItemTurns == 2
\* The turns of a campaign of one battle fought with plain attacks (SpecBrawl)
MaxBrawlTurns == 1
\* The turns of the campaign of SpecStory
MaxStoryTurns == 2
\* The amounts of damage over which take_damage is compared: 0 .. MaxDamage
MaxDamage == 60

Max(a, b) == IF a >= b THEN a ELSE b
Min(a, b) == IF a <= b THEN a ELSE b

(***************************************************************************)
(* Dice                                                                    *)
(***************************************************************************)
\* Every face of Dice::roll(sides): drawn from where only a comparison reads the face
faces(sides) == IF sides <= 1 THEN {1} ELSE 1 .. sides

\* The faces of Dice::roll(sides) a campaign draws from where the face enters the
\* arithmetic
roll(sides) == {k \in faces(sides) : k = sides \/ k % DieStep = 0}

\* Dice::chance(percent), given the face roll(100) showed
chance(r, percent) == r <= percent

\* The outcomes of Dice::chance(percent): chance falls with the face, so they are
\* those of the two extreme faces
chances(percent) == {chance(1, percent), chance(100, percent)}

(***************************************************************************)
(* Item, Inventory                                                         *)
(***************************************************************************)
Item(n, t, e) == [name |-> n, type |-> t, effect |-> e]

\* std::nullopt of std::optional<Item>
NoItem == Item("", "", 0)

add_item(inv, it) == [inv EXCEPT !.items = Append(@, it)]

\* A faulty variant of add_gold: the balance is floored at 0.
add_gold_floored(inv, amount) == [inv EXCEPT !.gold = Max(0, @ + amount)]

add_gold(inv, amount) == [inv EXCEPT !.gold = @ + amount]

has_item(inv, name) == \E i \in 1 .. Len(inv.items) : inv.items[i].name = name

\* A faulty variant of find_if: the last match goes instead of the first.
find_if_last(items, name) ==
    IF \E i \in 1 .. Len(items) : items[i].name = name
    THEN CHOOSE i \in 1 .. Len(items) :
             /\ items[i].name = name
             /\ \A j \in (i + 1) .. Len(items) : items[j].name # name
    ELSE 0

\* std::find_if: the index of the first item of that name, 0 for items.end()
find_if(items, name) ==
    IF \E i \in 1 .. Len(items) : items[i].name = name
    THEN CHOOSE i \in 1 .. Len(items) :
             /\ items[i].name = name
             /\ \A j \in 1 .. (i - 1) : items[j].name # name
    ELSE 0

\* std::vector::erase at index i
erase(items, i) == SubSeq(items, 1, i - 1) \o SubSeq(items, i + 1, Len(items))

\* Inventory::remove_item: [found, item, inv]
remove_item(inv, name) ==
    LET i == find_if(inv.items, name) IN
    IF i # 0
    THEN [found |-> TRUE, item |-> inv.items[i],
          inv |-> [inv EXCEPT !.items = erase(@, i)]]
    ELSE [found |-> FALSE, item |-> NoItem, inv |-> inv]

(***************************************************************************)
(* Character, Player                                                       *)
(***************************************************************************)
\* A faulty variant of is_alive: a character at 0 health counts as alive.
is_alive_at_zero(c) == c.health >= 0

is_alive(c) == c.health > 0

\* A faulty variant of take_damage: the health is not floored at 0.
take_damage_no_floor(c, dmg) ==
    [c EXCEPT !.health = @ - Max(0, dmg - c.defense)]

\* A faulty variant of take_damage: the damage after defense is not floored at 0.
take_damage_no_inner_floor(c, dmg) ==
    [c EXCEPT !.health = Max(0, @ - (dmg - c.defense))]

take_damage(c, dmg) ==
    LET actual == Max(0, dmg - c.defense) IN
    [c EXCEPT !.health = Max(0, @ - actual)]

\* A faulty variant of heal: the health is not capped at max_health.
heal_no_cap(c, amount) == [c EXCEPT !.health = @ + amount]

heal(c, amount) == [c EXCEPT !.health = Min(c.max_health, @ + amount)]

\* Character::attack_move, given the face the d20 showed: the target afterwards
\* A faulty variant of attack_move: the defense is left to take_damage alone.
attack_move_defense_once(c, target, r) == take_damage(target, r + c.attack)

attack_move(c, target, r) ==
    LET total == r + c.attack
        dmg == Max(0, total - target.defense)
    IN take_damage(target, dmg)

\* A faulty variant of restore_mana: the mana is not capped at max_mana.
restore_mana_no_cap(p, amount) == [p EXCEPT !.mana = @ + amount]

restore_mana(p, amount) == [p EXCEPT !.mana = Min(p.max_mana, @ + amount)]

spend_mana(p, cost) == [p EXCEPT !.mana = Max(0, @ - cost)]

add_to_rage(p, amount) == [p EXCEPT !.rage = Min(100, @ + amount)]

\* Character(n, hp, atk, def) and Player(n, hp, atk, def)
Character(n, hp, atk, def) ==
    [name |-> n, health |-> hp, max_health |-> hp, attack |-> atk,
     defense |-> def, mana |-> 0, max_mana |-> 0, rage |-> 0, is_boss |-> FALSE]

Player(n, hp, atk, def) ==
    [Character(n, hp, atk, def) EXCEPT !.mana = 100, !.max_mana = 100]

\* The null std::unique_ptr<Player>, and no battle running
NoPlayer == Character("", 0, 0, 0)
NoEnemy == Character("", 0, 0, 0)
NoInventory == [items |-> <<>>, gold |-> 0]

\* Inventory::use_item: [err, player, inv]; err "" is std::nullopt
\* A faulty variant of use_item: an item that cannot be used is not put back.
use_item_no_put_back(inv, name, p) ==
    LET opt == remove_item(inv, name)
        it == opt.item
    IN
    IF ~opt.found
    THEN [err |-> "You don't have", player |-> p, inv |-> inv]
    ELSE IF it.type = "potion"
    THEN IF it.name = "healing_potion"
         THEN [err |-> "", player |-> heal(p, it.effect), inv |-> opt.inv]
         ELSE IF it.name = "mana_potion"
         THEN [err |-> "", player |-> restore_mana(p, it.effect), inv |-> opt.inv]
         ELSE [err |-> "Unknown potion type.", player |-> p, inv |-> opt.inv]
    ELSE [err |-> "Can't use", player |-> p, inv |-> opt.inv]

use_item(inv, name, p) ==
    LET opt == remove_item(inv, name)
        it == opt.item
    IN
    IF ~opt.found
    THEN [err |-> "You don't have", player |-> p, inv |-> inv]
    ELSE IF it.type = "potion"
    THEN IF it.name = "healing_potion"
         THEN [err |-> "", player |-> heal(p, it.effect), inv |-> opt.inv]
         ELSE IF it.name = "mana_potion"
         THEN [err |-> "", player |-> restore_mana(p, it.effect), inv |-> opt.inv]
         ELSE [err |-> "Unknown potion type.", player |-> p,
               inv |-> add_item(opt.inv, it)]
    ELSE [err |-> "Can't use", player |-> p, inv |-> add_item(opt.inv, it)]

(***************************************************************************)
(* The five heroes: the constructors and special_move                      *)
(***************************************************************************)
HealingPotion(e) == Item("healing_potion", "potion", e)
ManaPotion(e) == Item("mana_potion", "potion", e)
CursedSword == Item("cursed_sword_plus5", "weapon", 5)

\* Each constructor: [player, inv]
Wizard ==
    [player |-> Player("Wizard", 120, 20, 15),
     inv |-> add_gold(add_item(add_item(NoInventory, HealingPotion(30)),
                               HealingPotion(30)), 20)]

Sorcerer ==
    [player |-> Player("Sorcerer", 80, 25, 8),
     inv |-> add_gold(add_item(add_item(NoInventory, HealingPotion(20)),
                               ManaPotion(30)), 30)]

Knight ==
    [player |-> Player("Knight", 90, 22, 10),
     inv |-> add_gold(add_item(NoInventory, HealingPotion(25)), 40)]

Bard ==
    [player |-> [Player("Bard", 140, 28, 12) EXCEPT !.rage = 20],
     inv |-> add_gold(add_item(NoInventory, HealingPotion(40)), 10)]

Zoomer ==
    [player |-> Player("Zoomer", 100, 24, 9),
     inv |-> add_gold(add_item(add_item(NoInventory, HealingPotion(25)),
                               HealingPotion(25)), 35)]

\* Each special_move: [player, target, msg]. r, r2: the faces of the d20; crit: what
\* dice.chance(25) returned.
Wizard_special_move(p, target, r) ==
    LET total_attack == r + p.attack
        dmg == (Max(0, total_attack - target.defense) * 3) \div 2
    IN [player |-> p, target |-> take_damage(target, dmg), msg |-> "ARCANE SHIELD"]

\* A faulty variant of Sorcerer::special_move: the mana is spent before it is checked.
Sorcerer_special_move_spend_first(p, target, r) ==
    LET q == spend_mana(p, 30)
        dmg == Max(0, r + p.attack + 10 - target.defense)
    IN IF p.mana < 30
       THEN [player |-> q, target |-> target, msg |-> "Not enough mana!"]
       ELSE [player |-> q, target |-> take_damage(target, dmg),
             msg |-> "ELEMENTAL FURY"]

Sorcerer_special_move(p, target, r) ==
    LET COST == 30
        total_attack == r + p.attack + 10
        dmg == Max(0, total_attack - target.defense)
    IN IF p.mana < COST
       THEN [player |-> p, target |-> target, msg |-> "Not enough mana!"]
       ELSE [player |-> spend_mana(p, COST), target |-> take_damage(target, dmg),
             msg |-> "ELEMENTAL FURY"]

Knight_special_move(p, target, r, crit) ==
    LET base_dmg == Max(0, (r + p.attack) - target.defense)
        dmg == IF crit THEN (base_dmg * 5) \div 2 ELSE base_dmg
    IN [player |-> p, target |-> take_damage(target, dmg),
        msg |-> IF crit THEN "HOLY STRIKE! CRITICAL HIT!" ELSE "HOLY STRIKE!"]

Bard_special_move(p, target, r) ==
    LET missing_hp == p.max_health - p.health
        rage_bonus == missing_hp \div 10
        total_attack == r + p.attack + rage_bonus
        dmg == Max(0, total_attack - target.defense)
    IN [player |-> add_to_rage(p, 15), target |-> take_damage(target, dmg),
        msg |-> "BATTLE SONG"]

\* A faulty variant of Zoomer::special_move: the second strike is always made.
Zoomer_special_move_always_twice(p, target, r, r2) ==
    LET dmg1 == Max(0, (r + p.attack) - target.defense)
        t1 == take_damage(target, dmg1)
        dmg2 == Max(0, (r2 + p.attack) - target.defense)
    IN [player |-> p, target |-> take_damage(t1, dmg2), msg |-> "RAPID STRIKE"]

Zoomer_special_move(p, target, r, r2) ==
    LET dmg1 == Max(0, (r + p.attack) - target.defense)
        t1 == take_damage(target, dmg1)
        dmg2 == Max(0, (r2 + p.attack) - target.defense)
    IN IF is_alive(t1)
       THEN [player |-> p, target |-> take_damage(t1, dmg2), msg |-> "RAPID STRIKE"]
       ELSE [player |-> p, target |-> t1, msg |-> "RAPID STRIKE (enemy defeated)"]

(***************************************************************************)
(* Enemy and the four monsters                                             *)
(***************************************************************************)
Enemy(n, hp, atk, def) == Character(n, hp, atk, def)

Demobat == Enemy("Demobat", 25, 12, 4)
Demodog == Enemy("Demodog", 50, 16, 7)
\* Faulty variant: one more point of defense
FlayedOne_defense_11 == Enemy("Flayed One", 80, 20, 11)

FlayedOne == Enemy("Flayed One", 80, 20, 10)
MindFlayer == [Enemy("Mind Flayer", 250, 35, 18) EXCEPT !.is_boss = TRUE]

\* Enemy::attack_move, given the face of the d20 and what dice.chance(30) returned:
\* the target afterwards
\* A faulty variant of Enemy::attack_move: the psychic damage is added after
\* take_damage, past the target's defense.
Enemy_attack_move_bonus_undefended(e, target, r, psychic) ==
    LET base_dmg == Max(0, (r + e.attack) - target.defense)
        psychic_dmg == IF psychic THEN 15 ELSE 0
        hit == take_damage(target, base_dmg)
    IN [hit EXCEPT !.health = Max(0, @ - psychic_dmg)]

Enemy_attack_move(e, target, r, psychic) ==
    LET base_dmg == Max(0, (r + e.attack) - target.defense)
        psychic_dmg == IF psychic THEN 15 ELSE 0
    IN take_damage(target, base_dmg + psychic_dmg)

(***************************************************************************)
(* GameEngine                                                              *)
(*                                                                         *)
(* pc: "menu"   run() waits at the main menu                               *)
(*     "loop"   game_loop waits for Enter before generate_random_event     *)
(*     "player" battle waits for the player's choice                       *)
(*     "resolve" battle is past the player's action, before line 647       *)
(*     "over"   game_loop has ended, run() asks "Play again?"              *)
(*     "exit"   run() has returned                                         *)
(*     "api"    no GameEngine: the classes are called directly, repeatedly  *)
(*     "unit"   no GameEngine: one call is to be made; "called": it was    *)
(***************************************************************************)
\* The value of last: the call, its argument where the model records one, and what
\* it returned or printed
CallOn(op, arg, out) == [op |-> op, arg |-> arg, out |-> out]
Call(op, out) == CallOn(op, "", out)

\* The call last made and the face its d100 showed
CallRoll(op, r) == [op |-> op, arg |-> "", out |-> "", roll |-> r]

initialize_player(choice) ==
    CASE choice = 1 -> Wizard
      [] choice = 2 -> Sorcerer
      [] choice = 3 -> Knight
      [] choice = 4 -> Bard
      [] choice = 5 -> Zoomer
      [] OTHER -> Wizard

\* A faulty variant of the loop condition: the boss's defeat does not end the campaign.
game_loop_ignores_boss(p, defeated) == is_alive(p)

\* The condition of game_loop's while
game_loop_continues(p, defeated) == is_alive(p) /\ ~defeated

\* Where game_loop goes with these values, and what it prints when it ends
game_loop_pc(p, defeated) ==
    IF game_loop_continues(p, defeated) THEN "loop" ELSE "over"

game_loop_ending(p, defeated) ==
    IF game_loop_continues(p, defeated) THEN "none"
    ELSE IF defeated THEN "victory" ELSE "gameover"

\* A faulty variant of spawn_random_enemy: the boss is forced only after turn 20.
spawn_random_enemy_late(t, defeated, r) ==
    IF t > 20 /\ ~defeated THEN MindFlayer
    ELSE IF r <= 40 THEN Demobat
    ELSE IF r <= 70 THEN Demodog
    ELSE IF r <= 95 THEN FlayedOne
    ELSE MindFlayer

\* spawn_random_enemy, given the face of the d100 (rolled past the first return)
spawn_random_enemy(t, defeated, r) ==
    IF t >= 20 /\ ~defeated THEN MindFlayer
    ELSE IF r <= 40 THEN Demobat
    ELSE IF r <= 70 THEN Demodog
    ELSE IF r <= 95 THEN FlayedOne
    ELSE MindFlayer

\* A faulty variant of generate_random_event: a 40 is no longer a combat.
event_kind_short_combat(r) ==
    IF r < 40 THEN "combat"
    ELSE IF r <= 65 THEN "treasure"
    ELSE IF r <= 80 THEN "healing"
    ELSE IF r <= 90 THEN "trap"
    ELSE "story"

\* The branch generate_random_event takes on the face of the d100
event_kind(r) ==
    IF r <= 40 THEN "combat"
    ELSE IF r <= 65 THEN "treasure"
    ELSE IF r <= 80 THEN "healing"
    ELSE IF r <= 90 THEN "trap"
    ELSE "story"

\* The faces of the d100 of generate_random_event that are drawn: the highest
\* of each branch
EventFaces == {r \in faces(100) : r \in {40, 65, 80, 90, 100}}

\* The drawn faces on which generate_random_event takes the branch
event_face(kind) == {r \in EventFaces : event_kind(r) = kind}

Init ==
    /\ pc = "menu"
    /\ player = NoPlayer
    /\ inventory = NoInventory
    /\ enemy = NoEnemy
    /\ enemy_stunned = FALSE
    /\ turns = 0
    /\ dragon_defeated = FALSE
    /\ battle_end = "none"
    /\ ending = "none"
    /\ fled_boss = FALSE
    /\ last = Call("run", "")

\* run(): "1. Start Game", the class chosen, initialize_player, into game_loop;
\* last.out: how the campaign before this one ended, "" before the first
StartGame ==
    /\ pc = "menu"
    /\ \E cls \in 1 .. 5 :
         LET made == initialize_player(cls) IN
         /\ player' = made.player
         /\ inventory' = made.inv
         /\ pc' = game_loop_pc(made.player, dragon_defeated)
         /\ ending' = game_loop_ending(made.player, dragon_defeated)
    /\ last' = Call("initialize_player", last.out)
    /\ UNCHANGED <<enemy, enemy_stunned, turns, dragon_defeated, battle_end, fled_boss>>

\* run(): "2. Exit"
ExitGame ==
    /\ pc = "menu"
    /\ pc' = "exit"
    /\ last' = Call("exit", "")
    /\ UNCHANGED <<player, inventory, enemy, enemy_stunned, turns, dragon_defeated,
                   battle_end, ending, fled_boss>>

\* Faulty variant: the reset leaves the turn counter as it is
PlayAgain_keeps_turns ==
    /\ pc = "over"
    /\ \/ /\ pc' = "menu"
          /\ player' = NoPlayer
          /\ inventory' = NoInventory
          /\ dragon_defeated' = FALSE
          /\ battle_end' = "none"
          /\ ending' = "none"
          /\ fled_boss' = FALSE
          /\ last' = Call("play_again", ending)
          /\ UNCHANGED turns
       \/ /\ pc' = "exit"
          /\ last' = Call("exit", "")
          /\ UNCHANGED <<player, inventory, turns, dragon_defeated, battle_end,
                         ending, fled_boss>>
    /\ UNCHANGED <<enemy, enemy_stunned>>

\* run(): "Play again?" answered yes (the reset of lines 836-838, the closing
\* text of the campaign that ended kept in last.out) or no
PlayAgain ==
    /\ pc = "over"
    /\ \/ /\ pc' = "menu"
          /\ player' = NoPlayer
          /\ inventory' = NoInventory
          /\ turns' = 0
          /\ dragon_defeated' = FALSE
          /\ battle_end' = "none"
          /\ ending' = "none"
          /\ fled_boss' = FALSE
          /\ last' = Call("play_again", ending)
       \/ /\ pc' = "exit"
          /\ last' = Call("exit", "")
          /\ UNCHANGED <<player, inventory, turns, dragon_defeated, battle_end,
                         ending, fled_boss>>
    /\ UNCHANGED <<enemy, enemy_stunned>>

\* What every event but the battle ends with: back in game_loop
EndEvent(p) ==
    /\ pc' = game_loop_pc(p, dragon_defeated)
    /\ ending' = game_loop_ending(p, dragon_defeated)
    /\ battle_end' = "none"
    /\ fled_boss' = FALSE
    /\ UNCHANGED <<enemy, enemy_stunned, dragon_defeated>>

BackToLoop(p, kind, op) ==
    /\ EndEvent(p)
    /\ \E f \in event_face(kind) : last' = CallRoll(op, f)

\* generate_random_event, r <= 40: spawn_random_enemy and battle up to its first prompt
CombatEvent(cap) ==
    /\ pc = "loop"
    /\ turns < cap
    /\ turns' = turns + 1
    /\ \E e \in {spawn_random_enemy(turns + 1, dragon_defeated, r) : r \in faces(100)} :
         enemy' = e
    /\ enemy_stunned' = FALSE
    /\ battle_end' = "none"
    /\ pc' = "player"
    /\ \E f \in event_face("combat") : last' = CallRoll("spawn_random_enemy", f)
    /\ UNCHANGED <<player, inventory, dragon_defeated, ending, fled_boss>>

\* generate_random_event, r <= 65: treasure_room
TreasureRoom(cap) ==
    /\ pc = "loop"
    /\ turns < cap
    /\ turns' = turns + 1
    /\ \E g \in roll(30), c1 \in chances(50), c2 \in chances(20) :
         LET gold == g + 20
             inv1 == add_gold(inventory, gold)
             inv2 == IF c1 THEN add_item(inv1, HealingPotion(30)) ELSE inv1
             inv3 == IF c2 THEN add_item(inv2, ManaPotion(30)) ELSE inv2
         IN inventory' = inv3
    /\ player' = player
    /\ BackToLoop(player, "treasure", "treasure_room")

\* generate_random_event, r <= 80: healing_fountain
HealingFountain(cap) ==
    /\ pc = "loop"
    /\ turns < cap
    /\ turns' = turns + 1
    /\ \E d \in roll(10) :
         LET amount == (player.max_health * 40) \div 100 + d IN
         /\ player' = restore_mana(heal(player, amount), 20)
         /\ BackToLoop(restore_mana(heal(player, amount), 20), "healing", "healing_fountain")
    /\ UNCHANGED inventory

\* A faulty variant of trap_event: the heavy damage starts at a 15.
trap_event_heavy_from_15(p, r, d) ==
    IF r <= 5 THEN p
    ELSE IF r < 15 THEN take_damage(p, d + 5)
    ELSE take_damage(p, d + 15)

\* trap_event, given the faces of the d20 and of the damage die: the player afterwards
trap_event(p, r, d) ==
    IF r <= 5 THEN p
    ELSE IF r <= 15 THEN take_damage(p, d + 5)
    ELSE take_damage(p, d + 15)

\* The faces of the damage die trap_event rolls after its d20 showed r (0: none rolled)
trap_die(r) == IF r <= 5 THEN {0} ELSE IF r <= 15 THEN roll(10) ELSE roll(20)

\* The faces of the d20 of trap_event that are drawn: the ends of each branch
TrapFaces == {r \in faces(20) : r \in {1, 5, 6, 15, 16, 20}}

\* The call of trap_event: the face of the d100 before it, the face of its d20
\* and of its damage die
CallTrap(f, r, d) ==
    [op |-> "trap_event", arg |-> "", out |-> "", roll |-> f, r |-> r, d |-> d]

\* generate_random_event, r <= 90: trap_event
TrapEvent(cap) ==
    /\ pc = "loop"
    /\ turns < cap
    /\ turns' = turns + 1
    /\ \E r \in TrapFaces :
         \E d \in trap_die(r) :
            LET p == trap_event(player, r, d) IN
            /\ player' = p
            /\ EndEvent(p)
            /\ \E f \in event_face("trap") : last' = CallTrap(f, r, d)
    /\ UNCHANGED inventory

\* A faulty variant of story_event: the cursed sword's +5 is applied to the attack.
story_event_sword_buffs(p, inv, event, choice) ==
    IF event = 1 THEN
        IF choice = 1
        THEN [player |-> p, inv |-> add_item(add_gold(inv, 25), HealingPotion(30))]
        ELSE [player |-> p, inv |-> add_gold(inv, -10)]
    ELSE IF event = 2 THEN
        IF has_item(inv, "healing_potion") /\ choice = 1
        THEN LET used == use_item(inv, "healing_potion", p) IN
             [player |-> used.player, inv |-> add_gold(used.inv, 15)]
        ELSE [player |-> p, inv |-> inv]
    ELSE IF event = 3 THEN
        IF inv.gold >= 10 /\ choice = 1
        THEN [player |-> restore_mana(heal(p, 20), 20), inv |-> add_gold(inv, -10)]
        ELSE [player |-> p, inv |-> inv]
    ELSE
        IF choice = 1
        THEN [player |-> [p EXCEPT !.attack = @ + 5], inv |-> add_item(inv, CursedSword)]
        ELSE [player |-> p, inv |-> inv]

\* A faulty variant of story_event: the wolf's potion is removed, not used.
story_event_wolf_no_heal(p, inv, event, choice) ==
    IF event = 1 THEN
        IF choice = 1
        THEN [player |-> p, inv |-> add_item(add_gold(inv, 25), HealingPotion(30))]
        ELSE [player |-> p, inv |-> add_gold(inv, -10)]
    ELSE IF event = 2 THEN
        IF has_item(inv, "healing_potion") /\ choice = 1
        THEN LET opt == remove_item(inv, "healing_potion") IN
             [player |-> p, inv |-> add_gold(opt.inv, 15)]
        ELSE [player |-> p, inv |-> inv]
    ELSE IF event = 3 THEN
        IF inv.gold >= 10 /\ choice = 1
        THEN [player |-> restore_mana(heal(p, 20), 20), inv |-> add_gold(inv, -10)]
        ELSE [player |-> p, inv |-> inv]
    ELSE
        IF choice = 1
        THEN [player |-> p, inv |-> add_item(inv, CursedSword)]
        ELSE [player |-> p, inv |-> inv]

\* A faulty variant of story_event: the wolf pays 20 gold.
story_event_wolf_pays_20(p, inv, event, choice) ==
    IF event = 1 THEN
        IF choice = 1
        THEN [player |-> p, inv |-> add_item(add_gold(inv, 25), HealingPotion(30))]
        ELSE [player |-> p, inv |-> add_gold(inv, -10)]
    ELSE IF event = 2 THEN
        IF has_item(inv, "healing_potion") /\ choice = 1
        THEN LET used == use_item(inv, "healing_potion", p) IN
             [player |-> used.player, inv |-> add_gold(used.inv, 20)]
        ELSE [player |-> p, inv |-> inv]
    ELSE IF event = 3 THEN
        IF inv.gold >= 10 /\ choice = 1
        THEN [player |-> restore_mana(heal(p, 20), 20), inv |-> add_gold(inv, -10)]
        ELSE [player |-> p, inv |-> inv]
    ELSE
        IF choice = 1
        THEN [player |-> p, inv |-> add_item(inv, CursedSword)]
        ELSE [player |-> p, inv |-> inv]

\* story_event, given the face of the d4 and the choice made where one is asked for:
\* [player, inv]
story_event(p, inv, event, choice) ==
    IF event = 1 THEN
        IF choice = 1
        THEN [player |-> p, inv |-> add_item(add_gold(inv, 25), HealingPotion(30))]
        ELSE [player |-> p, inv |-> add_gold(inv, -10)]
    ELSE IF event = 2 THEN
        IF has_item(inv, "healing_potion") /\ choice = 1
        THEN LET used == use_item(inv, "healing_potion", p) IN
             [player |-> used.player, inv |-> add_gold(used.inv, 15)]
        ELSE [player |-> p, inv |-> inv]
    ELSE IF event = 3 THEN
        IF inv.gold >= 10 /\ choice = 1
        THEN [player |-> restore_mana(heal(p, 20), 20), inv |-> add_gold(inv, -10)]
        ELSE [player |-> p, inv |-> inv]
    ELSE
        IF choice = 1
        THEN [player |-> p, inv |-> add_item(inv, CursedSword)]
        ELSE [player |-> p, inv |-> inv]

\* story_event asks for a choice (1 or 2) in this vignette
story_asks(inv, event) ==
    \/ event \in {1, 4}
    \/ event = 2 /\ has_item(inv, "healing_potion")
    \/ event = 3 /\ inv.gold >= 10

\* The call of story_event: the face of the d100 before it, the face of its d4
\* and the choice made (0: none asked for)
CallStory(f, event, choice) ==
    [op |-> "story_event", arg |-> "", out |-> "", roll |-> f,
     event |-> event, choice |-> choice]

\* generate_random_event, otherwise: story_event
StoryEvent(cap) ==
    /\ pc = "loop"
    /\ turns < cap
    /\ turns' = turns + 1
    /\ \E event \in faces(4) :
         \E choice \in (IF story_asks(inventory, event) THEN 1 .. 2 ELSE {0}) :
            LET told == story_event(player, inventory, event, choice) IN
            /\ player' = told.player
            /\ inventory' = told.inv
            /\ EndEvent(told.player)
            /\ \E f \in event_face("story") : last' = CallStory(f, event, choice)

(***************************************************************************)
(* GameEngine::battle                                                      *)
(***************************************************************************)
\* The virtual call player->special_move(*enemy): [player, target, msg]
special_move(p, target, r, r2, crit) ==
    CASE p.name = "Wizard" -> Wizard_special_move(p, target, r)
      [] p.name = "Sorcerer" -> Sorcerer_special_move(p, target, r)
      [] p.name = "Knight" -> Knight_special_move(p, target, r, crit)
      [] p.name = "Bard" -> Bard_special_move(p, target, r)
      [] OTHER -> Zoomer_special_move(p, target, r, r2)

\* The battle is left with the player in this state: back through game_loop
LeaveBattle(p, defeated, how) ==
    /\ battle_end' = how
    /\ fled_boss' = (how = "PlayerFled" /\ enemy.is_boss)
    /\ enemy' = NoEnemy
    /\ enemy_stunned' = FALSE
    /\ pc' = game_loop_pc(p, defeated)
    /\ ending' = game_loop_ending(p, defeated)

\* choice 1: player->attack_move(*enemy)
PlayerAttack ==
    /\ pc = "player"
    /\ \E r \in roll(20) : enemy' = attack_move(player, enemy, r)
    /\ pc' = "resolve"
    /\ last' = Call("attack_move", "")
    /\ UNCHANGED <<player, inventory, enemy_stunned, turns, dragon_defeated,
                   battle_end, ending, fled_boss>>

\* choice 1 with every face of the d20 of Character::attack_move, the face kept
PlayerAttackRolled ==
    /\ pc = "player"
    /\ \E r \in faces(20) :
         /\ enemy' = attack_move(player, enemy, r)
         /\ last' = CallRoll("attack_move", r)
    /\ pc' = "resolve"
    /\ UNCHANGED <<player, inventory, enemy_stunned, turns, dragon_defeated,
                   battle_end, ending, fled_boss>>

\* The faces of the d100 of line 601 that are drawn: both sides of the rate
StunFaces == {r \in faces(100) : r \in {25, 26}}

\* A faulty variant of line 601: the Wizard stuns on a roll of up to 50.
wizard_stuns_on_50(p, f) == p.name = "Wizard" /\ chance(f, 50)

\* Line 601: dynamic_cast<Wizard *>(player.get()) && dice.chance(25), given the
\* face of the d100 (not rolled for another hero)
wizard_stuns(p, f) == p.name = "Wizard" /\ chance(f, 25)

\* choice 2: player->special_move(*enemy), and the Wizard's stun
PlayerSpecial ==
    /\ pc = "player"
    /\ \E r \in roll(20) :
         \E r2 \in (IF player.name = "Zoomer" THEN roll(20) ELSE {0}) :
            \E crit \in (IF player.name = "Knight" THEN chances(25) ELSE {FALSE}) :
               \E f \in (IF player.name = "Wizard" THEN StunFaces ELSE {0}) :
                  LET done == special_move(player, enemy, r, r2, crit) IN
                  /\ player' = done.player
                  /\ enemy' = done.target
                  /\ enemy_stunned' = IF wizard_stuns(player, f)
                                       THEN TRUE ELSE enemy_stunned
                  /\ last' = IF player.name = "Wizard"
                              THEN [op |-> "special_move", arg |-> "",
                                    out |-> done.msg, roll |-> f]
                              ELSE Call("special_move", done.msg)
    /\ pc' = "resolve"
    /\ UNCHANGED <<inventory, turns, dragon_defeated, battle_end, ending, fled_boss>>

\* choice 3: the inventory is empty, or 0 (cancel) is selected: continue
PlayerItemNone ==
    /\ pc = "player"
    /\ \/ /\ inventory.items = <<>>
          /\ last' = Call("item_empty", "")
       \/ /\ inventory.items # <<>>
          /\ last' = Call("item_cancel", "")
    /\ UNCHANGED <<pc, player, inventory, enemy, enemy_stunned, turns,
                   dragon_defeated, battle_end, ending, fled_boss>>

\* A faulty variant of lines 624-627: a failed use asks the player again.
after_use_item_retry(err) == IF err = "" THEN "resolve" ELSE "player"

\* Lines 624-627: whatever use_item returned, no continue: on to line 647
after_use_item(err) == "resolve"

\* choice 3: item sel is selected and use_item is called with its name
PlayerItem ==
    /\ pc = "player"
    /\ \E sel \in 1 .. Len(inventory.items) :
         LET used == use_item(inventory, inventory.items[sel].name, player) IN
         /\ player' = used.player
         /\ inventory' = used.inv
         /\ last' = CallOn("use_item", inventory.items[sel].name, used.err)
         /\ pc' = after_use_item(used.err)
    /\ UNCHANGED <<enemy, enemy_stunned, turns, dragon_defeated, battle_end,
                   ending, fled_boss>>

\* A faulty variant of line 629: the boss is fled from like any monster.
flee_rate_flat(e) == 70

\* The rate of choice 4
flee_rate(e) == IF e.is_boss THEN 20 ELSE 70

\* The faces of the d100 of choice 4 that are drawn: both sides of both rates
FleeFaces == {r \in faces(100) : r \in {20, 21, 70, 71}}

\* choice 4: "Escaped!", or the enemy's attack and, if the player died of it, break
PlayerFlee ==
    /\ pc = "player"
    /\ \E f \in FleeFaces :
         IF chance(f, flee_rate(enemy))
         THEN /\ LeaveBattle(player, dragon_defeated, "PlayerFled")
              /\ last' = CallRoll("flee", f)
              /\ UNCHANGED <<player, inventory, turns, dragon_defeated>>
         ELSE \E r \in roll(20), psychic \in chances(30) :
                LET hit == Enemy_attack_move(enemy, player, r, psychic) IN
                /\ player' = hit
                /\ last' = CallRoll("flee_failed", f)
                /\ IF ~is_alive(hit)
                   THEN LeaveBattle(hit, dragon_defeated, "PlayerDied")
                   ELSE /\ pc' = "resolve"
                        /\ UNCHANGED <<enemy, enemy_stunned, battle_end, ending,
                                       fled_boss>>
                /\ UNCHANGED <<inventory, turns, dragon_defeated>>

\* A faulty variant of choice 5: no continue, the enemy's turn follows.
PlayerInspect_no_continue ==
    /\ pc = "player"
    /\ pc' = "resolve"
    /\ last' = Call("inspect", "")
    /\ UNCHANGED <<player, inventory, enemy, enemy_stunned, turns,
                   dragon_defeated, battle_end, ending, fled_boss>>

\* choice 5: inspect, continue
PlayerInspect ==
    /\ pc = "player"
    /\ last' = Call("inspect", "")
    /\ UNCHANGED <<pc, player, inventory, enemy, enemy_stunned, turns,
                   dragon_defeated, battle_end, ending, fled_boss>>

\* A faulty variant of line 660: any victory sets the flag.
mark_defeated_always(e, defeated) == TRUE

\* Line 660: dragon_defeated after a victory over e
mark_defeated(e, defeated) == IF e.is_boss THEN TRUE ELSE defeated

\* A faulty variant of line 650: the boss pays like any monster.
victory_gold_flat(e, r) == r + 10

\* Line 650: the gold looted from e, given the face of the d20
victory_gold(e, r) == r + (IF e.is_boss THEN 100 ELSE 10)

\* A faulty variant of lines 647-662: the dead enemy attacks before the reward.
Victory_after_attack ==
    /\ pc = "resolve"
    /\ ~is_alive(enemy)
    /\ \E r \in roll(20) :
         \E found \in (IF enemy.is_boss THEN {FALSE} ELSE chances(40)) :
            LET gold == victory_gold(enemy, r)
                inv1 == add_gold(inventory, gold)
                heal_amount == Max(1, player.max_health \div 5)
                hit == Enemy_attack_move(enemy, player, r, TRUE)
                healed == IF is_alive(hit) THEN heal(hit, heal_amount) ELSE hit
                defeated == mark_defeated(enemy, dragon_defeated)
            IN
            /\ inventory' = IF ~enemy.is_boss /\ found
                            THEN add_item(inv1, HealingPotion(30)) ELSE inv1
            /\ player' = healed
            /\ dragon_defeated' = defeated
            /\ LeaveBattle(healed, defeated, "PlayerWon")
    /\ last' = Call("victory", "")
    /\ UNCHANGED turns

\* Lines 647-662: the enemy is dead, the reward, return
Victory ==
    /\ pc = "resolve"
    /\ ~is_alive(enemy)
    /\ \E r \in roll(20) :
         \E found \in (IF enemy.is_boss THEN {FALSE} ELSE chances(40)) :
            LET gold == victory_gold(enemy, r)
                inv1 == add_gold(inventory, gold)
                heal_amount == Max(1, player.max_health \div 5)
                healed == heal(player, heal_amount)
                defeated == mark_defeated(enemy, dragon_defeated)
            IN
            /\ inventory' = IF ~enemy.is_boss /\ found
                            THEN add_item(inv1, HealingPotion(30)) ELSE inv1
            /\ player' = healed
            /\ dragon_defeated' = defeated
            /\ LeaveBattle(healed, defeated, "PlayerWon")
    /\ last' = Call("victory", "")
    /\ UNCHANGED turns

\* A faulty variant of lines 664-673: the skipped turn does not clear the stun.
EnemyTurn_keeps_stun ==
    /\ pc = "resolve"
    /\ is_alive(enemy)
    /\ IF enemy_stunned
       THEN /\ last' = Call("stunned", "")
            /\ pc' = "player"
            /\ UNCHANGED <<player, enemy, enemy_stunned, battle_end, ending,
                           fled_boss>>
       ELSE \E r \in roll(20), psychic \in chances(30) :
              LET hit == Enemy_attack_move(enemy, player, r, psychic) IN
              /\ player' = hit
              /\ last' = Call("enemy_attack_move", "")
              /\ IF is_alive(hit) /\ is_alive(enemy)
                 THEN /\ pc' = "player"
                      /\ UNCHANGED <<enemy, enemy_stunned, battle_end, ending,
                                     fled_boss>>
                 ELSE LeaveBattle(hit, dragon_defeated, "PlayerDied")
    /\ UNCHANGED <<inventory, turns, dragon_defeated>>

\* Lines 664-673 and the loop condition of line 586, the d20 of the monster's
\* attack drawn from dice
EnemyTurnWith(dice) ==
    /\ pc = "resolve"
    /\ is_alive(enemy)
    /\ IF enemy_stunned
       THEN /\ enemy_stunned' = FALSE
            /\ last' = Call("stunned", "")
            /\ pc' = "player"
            /\ UNCHANGED <<player, enemy, battle_end, ending, fled_boss>>
       ELSE \E r \in dice, psychic \in chances(30) :
              LET hit == Enemy_attack_move(enemy, player, r, psychic) IN
              /\ player' = hit
              /\ last' = Call("enemy_attack_move", "")
              /\ IF is_alive(hit) /\ is_alive(enemy)
                 THEN /\ pc' = "player"
                      /\ UNCHANGED <<enemy, enemy_stunned, battle_end, ending,
                                     fled_boss>>
                 ELSE LeaveBattle(hit, dragon_defeated, "PlayerDied")
    /\ UNCHANGED <<inventory, turns, dragon_defeated>>

EnemyTurn == EnemyTurnWith(roll(20))

Next ==
    \/ StartGame
    \/ ExitGame
    \/ PlayAgain
    \/ CombatEvent(MaxTurns)
    \/ TreasureRoom(MaxTurns)
    \/ HealingFountain(MaxTurns)
    \/ TrapEvent(MaxTurns)
    \/ StoryEvent(MaxTurns)
    \/ PlayerAttack
    \/ PlayerSpecial
    \/ PlayerItemNone
    \/ PlayerItem
    \/ PlayerFlee
    \/ PlayerInspect
    \/ Victory
    \/ EnemyTurn

Spec == Init /\ [][Next]_vars

(***************************************************************************)
(* SpecLate: the campaign of a player who only ever runs, through the      *)
(* events that need no other choice, far enough for turns to pass 20.      *)
(***************************************************************************)
NextLate ==
    \/ StartGame
    \/ ExitGame
    \/ PlayAgain
    \/ CombatEvent(MaxLateTurns)
    \/ TrapEvent(MaxLateTurns)
    \/ PlayerFlee
    \/ EnemyTurn

SpecLate == Init /\ [][NextLate]_vars

(***************************************************************************)
(* SpecStory: a campaign a few turns long of story events, traps and       *)
(* battles in which the player uses the special or runs.                   *)
(***************************************************************************)
NextStory ==
    \/ StartGame
    \/ StoryEvent(MaxStoryTurns)
    \/ TrapEvent(MaxStoryTurns)
    \/ CombatEvent(MaxStoryTurns)
    \/ PlayerSpecial
    \/ PlayerFlee
    \/ EnemyTurn
    \/ Victory

SpecStory == Init /\ [][NextStory]_vars

(***************************************************************************)
(* SpecItem: the campaign of a player who, in a battle, only uses items:   *)
(* story events fill the inventory, also with what cannot be used.         *)
(***************************************************************************)
NextItem ==
    \/ StartGame
    \/ StoryEvent(MaxItemTurns)
    \/ CombatEvent(MaxItemTurns)
    \/ PlayerItemNone
    \/ PlayerItem
    \/ EnemyTurn

SpecItem == Init /\ [][NextItem]_vars

(***************************************************************************)
(* SpecBrawl is a campaign of one battle in which the player chooses Attack *)
(* on every turn.  The hero's d20 shows every face, the monster's its       *)
(* lowest and its highest.  The battle loop of lines 586-675 runs on while  *)
(* both fighters live, so a step that can be taken is taken.                *)
(***************************************************************************)
MonsterFaces == {1}

NextBrawl ==
    \/ StartGame
    \/ CombatEvent(MaxBrawlTurns)
    \/ PlayerAttackRolled
    \/ Victory
    \/ EnemyTurnWith(MonsterFaces)

SpecBrawl == Init /\ [][NextBrawl]_vars /\ WF_vars(NextBrawl)

(***************************************************************************)
(* The classes called directly, without a GameEngine: SpecInventory calls  *)
(* Inventory and Character::take_damage on a hero as constructed,          *)
(* SpecDuel calls attack_move and special_move of a hero on a monster.     *)
(* Here every face of the d20 is drawn.                                    *)
(***************************************************************************)
\* A potion neither branch of use_item knows; no code adds one, add_item takes any Item.
Elixir == Item("elixir", "potion", 10)

ItemInputs == {HealingPotion(30), Elixir, CursedSword}
NameInputs == {"healing_potion", "mana_potion", "elixir", "cursed_sword_plus5"}
DamageInputs == {5, 50, 200}

\* The call of take_damage and its argument
CallDmg(op, dmg) == [op |-> op, arg |-> "", out |-> "", dmg |-> dmg]
Monsters == {Demobat, Demodog, FlayedOne, MindFlayer}

InitApi(targets) ==
    /\ pc = "api"
    /\ \E cls \in 1 .. 5 :
         /\ player = initialize_player(cls).player
         /\ inventory = initialize_player(cls).inv
    /\ enemy \in targets
    /\ enemy_stunned = FALSE
    /\ turns = 0
    /\ dragon_defeated = FALSE
    /\ battle_end = "none"
    /\ ending = "none"
    /\ fled_boss = FALSE
    /\ last = Call("Player", "")

ApiFrame ==
    UNCHANGED <<pc, enemy_stunned, turns, dragon_defeated, battle_end, ending, fled_boss>>

\* player.take_damage(dmg)
ApiTakeDamage ==
    /\ pc = "api"
    /\ \E dmg \in DamageInputs :
         /\ player' = take_damage(player, dmg)
         /\ last' = CallDmg("take_damage", dmg)
    /\ UNCHANGED <<inventory, enemy>>
    /\ ApiFrame

\* player.get_inventory().add_item(it)
ApiAddItem ==
    /\ pc = "api"
    /\ Len(inventory.items) < MaxItems
    /\ \E it \in ItemInputs :
         /\ inventory' = add_item(inventory, it)
         /\ last' = CallOn("add_item", it.name, "")
    /\ UNCHANGED <<player, enemy>>
    /\ ApiFrame

\* player.get_inventory().remove_item(name)
ApiRemoveItem ==
    /\ pc = "api"
    /\ \E name \in NameInputs :
         LET opt == remove_item(inventory, name) IN
         /\ inventory' = opt.inv
         /\ last' = CallOn("remove_item", name, IF opt.found THEN "" ELSE "nullopt")
    /\ UNCHANGED <<player, enemy>>
    /\ ApiFrame

\* player.get_inventory().use_item(name, player)
ApiUseItem ==
    /\ pc = "api"
    /\ \E name \in NameInputs :
         LET used == use_item(inventory, name, player) IN
         /\ player' = used.player
         /\ inventory' = used.inv
         /\ last' = CallOn("use_item", name, used.err)
    /\ UNCHANGED enemy
    /\ ApiFrame

NextInventory ==
    \/ ApiTakeDamage
    \/ ApiAddItem
    \/ ApiRemoveItem
    \/ ApiUseItem

SpecInventory == InitApi({NoEnemy}) /\ [][NextInventory]_vars

\* player.attack_move(enemy)
ApiAttackMove ==
    /\ pc = "api"
    /\ \E r \in faces(20) : enemy' = attack_move(player, enemy, r)
    /\ last' = Call("attack_move", "")
    /\ UNCHANGED <<player, inventory>>
    /\ ApiFrame

\* player.special_move(enemy)
ApiSpecialMove ==
    /\ pc = "api"
    /\ \E r \in faces(20) :
         \E r2 \in (IF player.name = "Zoomer" THEN faces(20) ELSE {0}) :
            \E crit \in (IF player.name = "Knight" THEN chances(25) ELSE {FALSE}) :
               LET done == special_move(player, enemy, r, r2, crit) IN
               /\ player' = done.player
               /\ enemy' = done.target
               /\ last' = Call("special_move", done.msg)
    /\ UNCHANGED inventory
    /\ ApiFrame

NextDuel ==
    \/ ApiAttackMove
    \/ ApiSpecialMove

SpecDuel == InitApi(Monsters) /\ [][NextDuel]_vars

(***************************************************************************)
(* SpecAttack: one call of one of the attacks, or of trap_event, on a hero *)
(* and a monster that are fresh or were brought down to LowHealth before.  *)
(* Every face of every die is drawn.                                       *)
(***************************************************************************)
HealthLevels(c) == {c.max_health, LowHealth}

InitUnit ==
    /\ pc = "unit"
    /\ \E cls \in 1 .. 5 :
         LET made == initialize_player(cls) IN
         /\ player \in {[made.player EXCEPT !.health = hp] :
                           hp \in HealthLevels(made.player)}
         /\ inventory = made.inv
    /\ enemy \in UNION {{[m EXCEPT !.health = hp] : hp \in HealthLevels(m)} :
                          m \in Monsters}
    /\ enemy_stunned = FALSE
    /\ turns = 0
    /\ dragon_defeated = FALSE
    /\ battle_end = "none"
    /\ ending = "none"
    /\ fled_boss = FALSE
    /\ last = Call("Player", "")

UnitFrame ==
    /\ pc' = "called"
    /\ UNCHANGED <<inventory, enemy_stunned, turns, dragon_defeated, battle_end,
                   ending, fled_boss>>

\* The faces of the d100 of Enemy::attack_move that are drawn: both sides of 30
PsychicFaces == {r \in faces(100) : r \in {30, 31}}

\* The call of Enemy::attack_move, the faces of its d20 and of its d100
CallEnemyAttack(r, f) ==
    [op |-> "enemy_attack_move", arg |-> "", out |-> "", roll |-> r, psychic |-> f]

\* player.attack_move(enemy)
UnitAttackMove ==
    /\ pc = "unit"
    /\ \E r \in faces(20) :
         /\ enemy' = attack_move(player, enemy, r)
         /\ last' = CallRoll("attack_move", r)
    /\ UNCHANGED player
    /\ UnitFrame

\* enemy.attack_move(player)
UnitEnemyAttackMove ==
    /\ pc = "unit"
    /\ \E r \in faces(20), f \in PsychicFaces :
         /\ player' = Enemy_attack_move(enemy, player, r, chance(f, 30))
         /\ last' = CallEnemyAttack(r, f)
    /\ UNCHANGED enemy
    /\ UnitFrame

\* enemy.special_move(player): no-op
UnitEnemySpecialMove ==
    /\ pc = "unit"
    /\ last' = Call("enemy_special_move", "")
    /\ UNCHANGED <<player, enemy>>
    /\ UnitFrame

\* trap_event() on the player
UnitTrapEvent ==
    /\ pc = "unit"
    /\ \E r \in TrapFaces :
         \E d \in (IF r <= 5 THEN {0} ELSE IF r <= 15 THEN faces(10) ELSE faces(20)) :
            /\ player' = trap_event(player, r, d)
            /\ last' = CallTrap(0, r, d)
    /\ UNCHANGED enemy
    /\ UnitFrame

NextAttack ==
    \/ UnitAttackMove
    \/ UnitEnemyAttackMove
    \/ UnitEnemySpecialMove
    \/ UnitTrapEvent

SpecAttack == InitUnit /\ [][NextAttack]_vars

(***************************************************************************)
(* Properties                                                              *)
(***************************************************************************)
BattlePcs == {"player", "resolve"}

Matches(items, name) == {i \in DOMAIN items : items[i].name = name}
First(S) == CHOOSE i \in S : \A j \in S : i <= j
Without(items, i) ==
    [j \in 1 .. Len(items) - 1 |-> IF j < i THEN items[j] ELSE items[j + 1]]
CountOf(items, it) == Cardinality({i \in DOMAIN items : items[i] = it})
SameItems(a, b) ==
    /\ Len(a) = Len(b)
    /\ \A i \in DOMAIN a : CountOf(a, a[i]) = CountOf(b, a[i])

\* C1: the health of the hero and of the monster is always between 0 and the
\* maximum health, whatever damage and healing were applied.
C1_HealthInRange ==
    /\ 0 <= player.health /\ player.health <= player.max_health
    /\ 0 <= enemy.health /\ enemy.health <= enemy.max_health

\* A monster brought to exactly 0 by a hit larger than its health, facing a hurt hero.
C1_Witness ==
    /\ pc = "resolve"
    /\ enemy # NoEnemy /\ enemy.health = 0
    /\ 0 < player.health /\ player.health < player.max_health

C3_BattleOn ==
    /\ battle_end \in {"none", "PlayerWon", "PlayerFled", "PlayerDied"}
    /\ pc \in BattlePcs =>
          /\ battle_end = "none"
          /\ enemy # NoEnemy
          /\ player.health > 0
          /\ pc = "player" => enemy.health > 0
    /\ battle_end = "PlayerDied" => player.health = 0
    /\ battle_end \in {"PlayerWon", "PlayerFled"} => player.health > 0

C3_BattleLeft ==
    (pc \in BattlePcs /\ pc' \notin BattlePcs) =>
        \/ /\ battle_end' = "PlayerWon"
           /\ pc = "resolve" /\ enemy.health = 0 /\ player'.health > 0
        \/ /\ battle_end' = "PlayerFled"
           /\ pc = "player" /\ last'.op = "flee"
           /\ player' = player /\ enemy.health > 0
        \/ /\ battle_end' = "PlayerDied"
           /\ player'.health = 0 /\ enemy.health > 0

C3_BattleOutcome == []C3_BattleOn /\ [][C3_BattleLeft]_vars

\* A battle the hero has won, the campaign going on.
C3_Witness == battle_end = "PlayerWon" /\ pc = "loop"

\* C4: the campaign dispatches events exactly while the hero is alive and the
\* boss undefeated; it ends in victory iff the boss is defeated, in game over
\* otherwise; after a successful flee the campaign goes on.
C4_CampaignLoop ==
    /\ pc \in {"loop"} \cup BattlePcs =>
          player.health > 0 /\ ~dragon_defeated /\ ending = "none"
    /\ pc = "over" =>
          /\ player.health = 0 \/ dragon_defeated
          /\ ending \in {"victory", "gameover"}
          /\ ending = "victory" <=> dragon_defeated
          /\ ending = "gameover" => player.health = 0
    /\ battle_end = "PlayerFled" => pc = "loop" /\ ending = "none"

\* A campaign ended by the victory over the boss.
C4_Witness == pc = "over" /\ ending = "victory" /\ player.health > 0

\* C5: from turn 20 on, the boss undefeated, every Combat event is a battle
\* against the Mind Flayer, also after the hero fled from it.
C5_ForcedBoss ==
    (pc \in BattlePcs /\ turns >= 20 /\ ~dragon_defeated) =>
        enemy.is_boss /\ enemy.name = "Mind Flayer"

\* The hero fled from the boss at turn 20 or later and meets it again.
C5_Witness ==
    /\ pc = "player"
    /\ turns >= 21
    /\ fled_boss
    /\ enemy.is_boss

C6_DefeatedByVictory ==
    (dragon_defeated' /\ ~dragon_defeated) =>
        /\ pc = "resolve"
        /\ enemy.is_boss /\ enemy.health = 0
        /\ battle_end' = "PlayerWon"
        /\ turns' = turns

C7_UseItemStep ==
    (last'.op = "use_item" /\ pc = "api") =>
        LET name == last'.arg
            items == inventory.items
        IN
        /\ (name = "healing_potion" /\ Matches(items, name) # {}) =>
              /\ last'.out = ""
              /\ \E i \in Matches(items, name) :
                    /\ inventory'.items = Without(items, i)
                    /\ player'.health = player.health
                          + Min(items[i].effect, player.max_health - player.health)
              /\ inventory'.gold = inventory.gold
              /\ player'.mana = player.mana
        /\ Matches(items, name) = {} =>
              /\ last'.out = "You don't have"
              /\ inventory' = inventory
              /\ player' = player

C7_UseItem == [][C7_UseItemStep]_vars

\* A healing potion drunk by a hurt hero, who stays below the maximum health.
C7_Witness ==
    /\ pc = "api"
    /\ last = CallOn("use_item", "healing_potion", "")
    /\ player.health < player.max_health

\* C8: use_item on a held item that is not usable (a potion of an unknown name,
\* or not a potion) fails with a reason; the inventory holds the same items as
\* before, the gold, the health and the mana are unchanged.
C8_UnusableStep ==
    (last'.op = "use_item" /\ pc = "api") =>
        LET name == last'.arg
            items == inventory.items
        IN
        (/\ Matches(items, name) # {}
         /\ LET it == items[First(Matches(items, name))] IN
            it.type # "potion" \/ it.name \notin {"healing_potion", "mana_potion"}) =>
              /\ last'.out \in {"Unknown potion type.", "Can't use"}
              /\ SameItems(inventory'.items, items)
              /\ inventory'.gold = inventory.gold
              /\ player' = player

C8_Unusable == [][C8_UnusableStep]_vars

\* An unknown potion was refused and is still held.
C8_Witness ==
    /\ pc = "api"
    /\ last = CallOn("use_item", "elixir", "Unknown potion type.")
    /\ Matches(inventory.items, "elixir") # {}

\* C9: remove_item removes the first item of the name and keeps the order of
\* the others; use_item consumes the first item of the name and applies its
\* magnitude; with no item of the name both report it and leave the list alone.
C9_FirstMatchStep ==
    (last'.op \in {"remove_item", "use_item"} /\ pc = "api") =>
        LET name == last'.arg
            items == inventory.items
            found == Matches(items, name) # {}
            i == First(Matches(items, name))
        IN
        /\ (last'.op = "remove_item" /\ found) =>
              last'.out = "" /\ inventory'.items = Without(items, i)
        /\ (last'.op = "remove_item" /\ ~found) =>
              last'.out = "nullopt" /\ inventory'.items = items
        /\ (last'.op = "use_item" /\ found /\ name = "healing_potion") =>
              /\ inventory'.items = Without(items, i)
              /\ player'.health = Min(player.max_health, player.health + items[i].effect)
        /\ (last'.op = "use_item" /\ found /\ name = "mana_potion") =>
              /\ inventory'.items = Without(items, i)
              /\ player'.mana = Min(player.max_mana, player.mana + items[i].effect)
        /\ (last'.op = "use_item" /\ ~found) =>
              last'.out = "You don't have" /\ inventory'.items = items

C9_FirstMatch == [][C9_FirstMatchStep]_vars

\* A healing potion was drunk while two of different magnitudes were held: the
\* later one is left.
C9_Witness ==
    /\ pc = "api"
    /\ last = CallOn("use_item", "healing_potion", "")
    /\ player.name = "Knight"
    /\ player.health = 10 + 25
    /\ inventory.items = <<HealingPotion(30)>>

\* C10: the Sorcerer's special with less than 30 mana deals no damage and leaves
\* the mana; otherwise the mana drops by 30 and the target takes, through
\* take_damage, max(0, roll + attack + 10 - defense) for a roll in 1..20.
C10_SorcererStep ==
    (last'.op = "special_move" /\ pc = "api" /\ player.name = "Sorcerer") =>
        IF player.mana < 30
        THEN player' = player /\ enemy' = enemy
        ELSE /\ player' = [player EXCEPT !.mana = player.mana - 30]
             /\ \E k \in 1 .. 20 :
                   LET dmg == Max(0, k + player.attack + 10 - enemy.defense) IN
                   enemy' = [enemy EXCEPT
                               !.health = Max(0, @ - Max(0, dmg - enemy.defense))]

C10_SorcererSpecial == [][C10_SorcererStep]_vars

\* The Sorcerer, out of mana, tried the special.
C10_Witness ==
    /\ pc = "api"
    /\ player.name = "Sorcerer"
    /\ last = Call("special_move", "Not enough mana!")
    /\ player.mana < 30

\* One basic-attack strike of attacker a with d20 face k on target t, as the
\* claims state it: max(0, k + attack - defense) through take_damage
Strike(a, t, k) ==
    LET dmg == Max(0, k + a.attack - t.defense) IN
    [t EXCEPT !.health = Max(0, @ - Max(0, dmg - t.defense))]

\* C11: the Zoomer's special applies one basic-attack roll to the target and a
\* second, independent one only if the target is alive after the first; a
\* target brought to 0 by the first strike gets no second strike.
C11_ZoomerStep ==
    (last'.op = "special_move" /\ pc = "api" /\ player.name = "Zoomer") =>
        /\ player' = player
        /\ \E k1 \in 1 .. 20 :
              LET t1 == Strike(player, enemy, k1) IN
              IF t1.health > 0
              THEN /\ last'.out = "RAPID STRIKE"
                   /\ \E k2 \in 1 .. 20 : enemy' = Strike(player, t1, k2)
              ELSE /\ last'.out = "RAPID STRIKE (enemy defeated)"
                   /\ enemy' = t1

C11_ZoomerSpecial == [][C11_ZoomerStep]_vars

\* The first strike of a special left the monster at 0: one strike only.
C11_Witness ==
    /\ pc = "api"
    /\ player.name = "Zoomer"
    /\ last = Call("special_move", "RAPID STRIKE (enemy defeated)")
    /\ enemy.health = 0

\* C12: once a player action has brought the monster to 0 health, the battle
\* ends as PlayerWon: the gold grows by roll(20) + 100 for a boss, roll(20) + 10
\* otherwise; the hero is healed by max(1, max_health / 5), capped; a healing
\* potion is added only for a non-boss (when the 40% roll succeeds); the boss
\* flag is set iff the monster is a boss; the dead monster does not attack.
C12_VictoryStep ==
    (pc = "resolve" /\ enemy.health = 0) =>
        /\ battle_end' = "PlayerWon"
        /\ pc' \notin BattlePcs
        /\ \E k \in 1 .. 20 :
              inventory'.gold = inventory.gold + k + (IF enemy.is_boss THEN 100 ELSE 10)
        /\ player' = [player EXCEPT
                        !.health = Min(player.max_health,
                                       @ + Max(1, player.max_health \div 5))]
        /\ \/ inventory'.items = inventory.items
           \/ /\ ~enemy.is_boss
              /\ inventory'.items = Append(inventory.items, HealingPotion(30))
        /\ dragon_defeated' <=> enemy.is_boss
        /\ turns' = turns

C12_Victory == [][C12_VictoryStep]_vars

\* A won battle whose reward healed the hero up to the maximum health.
C12_Witness ==
    /\ last = Call("victory", "")
    /\ battle_end = "PlayerWon"
    /\ pc = "loop"
    /\ player.health = player.max_health
    /\ inventory.items # <<>>

\* C13: Flee succeeds exactly when the d100 shows at most 70 against a
\* non-boss, at most 20 against a boss; on success the battle ends at once as
\* PlayerFled, the hero, the gold, the inventory and the boss flag unchanged,
\* with no attack by the monster and no reward.
C13_FleeStep ==
    (pc = "player" /\ last'.op \in {"flee", "flee_failed"}) =>
        /\ last'.op = "flee" <=> last'.roll <= (IF enemy.is_boss THEN 20 ELSE 70)
        /\ last'.op = "flee" =>
              /\ battle_end' = "PlayerFled"
              /\ pc' = "loop"
              /\ player' = player
              /\ inventory' = inventory
              /\ dragon_defeated' = dragon_defeated
              /\ turns' = turns

C13_Flee == [][C13_FleeStep]_vars

\* The hero escaped from the boss on a 20, the highest face that lets them.
C13_Witness ==
    /\ last = CallRoll("flee", 20)
    /\ battle_end = "PlayerFled"
    /\ fled_boss

\* The event of each face of the d100, as stated, and the call it leads to
ExpectedKind(r) ==
    CASE r \in 1 .. 40 -> "combat"
      [] r \in 41 .. 65 -> "treasure"
      [] r \in 66 .. 80 -> "healing"
      [] r \in 81 .. 90 -> "trap"
      [] r \in 91 .. 100 -> "story"

EventOp(kind) ==
    CASE kind = "combat" -> "spawn_random_enemy"
      [] kind = "treasure" -> "treasure_room"
      [] kind = "healing" -> "healing_fountain"
      [] kind = "trap" -> "trap_event"
      [] kind = "story" -> "story_event"

\* C14: a dispatch roll of 1..40 is a Combat, 41..65 a Treasure, 66..80 a
\* Healing, 81..90 a Trap, 91..100 a Narrative; every step of the campaign loop
\* dispatches exactly one event and adds exactly 1 to the turn counter; the
\* rounds of a battle leave the counter alone.
C14_Table == \A r \in 1 .. 100 : event_kind(r) = ExpectedKind(r)

C14_DispatchStep ==
    /\ pc = "loop" =>
          /\ turns' = turns + 1
          /\ last'.op = EventOp(ExpectedKind(last'.roll))
    /\ pc \in BattlePcs => turns' = turns
    /\ turns' # turns => pc = "loop" \/ (pc = "over" /\ turns' = 0)

C14_Dispatch == []C14_Table /\ [][C14_DispatchStep]_vars

\* A 90, the highest face of the Trap, was rolled on the first turn.
C14_Witness ==
    /\ last.op = "trap_event"
    /\ last.roll = 90
    /\ turns = 1

\* C15: take_damage(d) sets the health to max(0, health - max(0, d - defense));
\* the missing health afterwards is non-decreasing in d, and take_damage never
\* raises the health.
C15_Monotone ==
    pc = "api" =>
        \A d \in 0 .. (MaxDamage - 1) :
            LET less == take_damage(player, d)
                more == take_damage(player, d + 1)
            IN /\ less.max_health - less.health <= more.max_health - more.health
               /\ less.health <= player.health

C15_TakeDamageStep ==
    (pc = "api" /\ last'.op = "take_damage") =>
        /\ player' = [player EXCEPT
                        !.health = Max(0, @ - Max(0, last'.dmg - player.defense))]
        /\ player'.health <= player.health

C15_TakeDamage == []C15_Monotone /\ [][C15_TakeDamageStep]_vars

\* A hurt hero took a hit weaker than the defense and lost nothing.
C15_Witness ==
    /\ pc = "api"
    /\ last = CallDmg("take_damage", 5)
    /\ 0 < player.health /\ player.health < player.max_health

\* C16: the gold has no floor: refusing the traveler (vignette 1, choice 2)
\* takes 10 gold whatever the balance is, so a negative balance is reachable.
C16_RefuseStep ==
    (last'.op = "story_event" /\ last'.event = 1 /\ last'.choice = 2) =>
        /\ inventory'.gold = inventory.gold - 10
        /\ inventory'.items = inventory.items
        /\ player' = player

C16_NoGoldFloor == [][C16_RefuseStep]_vars

\* The traveler was refused by a hero without gold: the balance is negative.
C16_Witness ==
    /\ last.op = "story_event" /\ last.event = 1 /\ last.choice = 2
    /\ inventory.gold < 0

\* C17, as stated: between two decisions of the player the monster attacks the
\* hero at most once: the enemy turn attacks only after an Attack, a Special or
\* a UseItem, never after the attack that a failed Flee has already brought.
C17_AttackAfterAction ==
    last'.op = "enemy_attack_move" =>
        /\ pc = "resolve"
        /\ last.op \in {"attack_move", "special_move", "use_item"}

C17_AtMostOneAttack == [][C17_AttackAfterAction]_vars

\* C18: the monster becomes stunned only by a Wizard's Special whose d100
\* shows at most 25; a stunned monster that is alive skips its next enemy turn,
\* the hero untouched, and the skip consumes the stun; with no stun the monster
\* attacks on its enemy turn. No stun is pending when the player is asked.
C18_NoPendingStun == pc = "resolve" \/ ~enemy_stunned

C18_StunStep ==
    /\ (enemy_stunned' /\ ~enemy_stunned) =>
          /\ pc = "player"
          /\ player.name = "Wizard"
          /\ last'.op = "special_move"
    /\ (pc = "player" /\ player.name = "Wizard" /\ last'.op = "special_move") =>
          (enemy_stunned' <=> last'.roll <= 25)
    /\ (pc = "resolve" /\ enemy_stunned /\ enemy.health > 0) =>
          /\ last'.op = "stunned"
          /\ player' = player
          /\ enemy' = enemy
          /\ ~enemy_stunned'
          /\ pc' = "player"
    /\ (pc = "resolve" /\ ~enemy_stunned /\ enemy.health > 0) =>
          /\ last'.op = "enemy_attack_move"
          /\ player'.health <= player.health
    /\ pc' = "player" => ~enemy_stunned'

C18_Stun == []C18_NoPendingStun /\ [][C18_StunStep]_vars

\* A stunned monster has skipped its turn; the player is asked again.
C18_Witness ==
    /\ last = Call("stunned", "")
    /\ pc = "player"
    /\ ~enemy_stunned
    /\ player.name = "Wizard"

\* C19: Inspect changes nothing: the hero, the monster, the gold, the
\* inventory, the stun flag, the turn counter and the boss flag are as before,
\* the monster takes no turn, and the player is asked again.
C19_InspectStep ==
    last'.op = "inspect" =>
        /\ pc = "player" /\ pc' = "player"
        /\ UNCHANGED <<player, inventory, enemy, enemy_stunned, turns,
                       dragon_defeated, battle_end, ending>>

C19_Inspect == [][C19_InspectStep]_vars

\* The monster inspected in the middle of a battle, the hero already hurt.
C19_Witness ==
    /\ last = Call("inspect", "")
    /\ pc = "player"
    /\ player.health < player.max_health
    /\ enemy.health < enemy.max_health

\* C20: a UseItem whose use fails consumes the turn like a successful one: the
\* enemy turn follows; UseItem with an empty inventory, or cancelled, changes
\* nothing and asks the player again, with no enemy turn.
C20_ItemStep ==
    /\ (pc = "player" /\ last'.op = "use_item") =>
          /\ pc' = "resolve"
          /\ enemy' = enemy /\ enemy_stunned' = enemy_stunned
          /\ last'.out # "" => player' = player
    /\ (pc = "resolve" /\ last.op = "use_item" /\ enemy.health > 0) =>
          last'.op = (IF enemy_stunned THEN "stunned" ELSE "enemy_attack_move")
    /\ last'.op \in {"item_empty", "item_cancel"} =>
          /\ pc = "player" /\ pc' = "player"
          /\ last'.op = "item_empty" <=> inventory.items = <<>>
          /\ UNCHANGED <<player, inventory, enemy, enemy_stunned, turns,
                         dragon_defeated, battle_end, ending>>

C20_ItemTurn == [][C20_ItemStep]_vars

\* The cursed sword could not be used; the enemy turn is next.
C20_Witness ==
    /\ pc = "resolve"
    /\ last = CallOn("use_item", "cursed_sword_plus5", "Can't use")
    /\ enemy.health > 0

\* take_damage(d) on c, as the claims state it
Damaged(c, d) == [c EXCEPT !.health = Max(0, @ - Max(0, d - c.defense))]

\* C21: a Trap whose d20 shows at most 5 leaves the hero's health; 6..15 makes
\* the hero take roll(10) + 5, 16 or more roll(20) + 15; the trap changes
\* nothing but the hero's health, and a trap that brings it to 0 ends the
\* campaign as a loss.
C21_TrapStep ==
    last'.op = "trap_event" =>
        LET r2 == last'.r
            d == last'.d
        IN
        /\ pc = "loop"
        /\ r2 \in 1 .. 20
        /\ r2 <= 5 => player' = player
        /\ r2 \in 6 .. 15 => d \in 1 .. 10 /\ player' = Damaged(player, d + 5)
        /\ r2 >= 16 => d \in 1 .. 20 /\ player' = Damaged(player, d + 15)
        /\ UNCHANGED <<inventory, enemy, enemy_stunned, dragon_defeated>>
        /\ turns' = turns + 1
        /\ IF player'.health = 0
           THEN pc' = "over" /\ ending' = "gameover"
           ELSE pc' = "loop" /\ ending' = "none"

C21_Trap == [][C21_TrapStep]_vars

\* A trap has killed the hero: the campaign is lost.
C21_Witness ==
    /\ last.op = "trap_event"
    /\ last.r >= 6
    /\ player.health = 0
    /\ pc = "over" /\ ending = "gameover"

\* C22: the shrine (vignette 3) asks only with gold >= 10, and accepting it
\* (-10 gold, +20 health, +20 mana, both capped) leaves the gold >= 0; the
\* wounded creature (vignette 2) asks only with a healing potion held, and
\* accepting it takes exactly one healing potion and adds exactly 15 gold;
\* a vignette that does not ask changes neither the hero nor the inventory.
C22_GuardStep ==
    last'.op = "story_event" =>
        LET choice == last'.choice
            potions == Matches(inventory.items, "healing_potion")
        IN
        /\ last'.event = 3 =>
              /\ choice # 0 <=> inventory.gold >= 10
              /\ choice = 1 =>
                    /\ inventory'.gold = inventory.gold - 10
                    /\ inventory'.gold >= 0
                    /\ inventory'.items = inventory.items
                    /\ player' = [player EXCEPT
                                    !.health = Min(player.max_health, @ + 20),
                                    !.mana = Min(player.max_mana, @ + 20)]
        /\ last'.event = 2 =>
              /\ choice # 0 <=> potions # {}
              /\ choice = 1 =>
                    /\ Cardinality(Matches(inventory'.items, "healing_potion"))
                          = Cardinality(potions) - 1
                    /\ Len(inventory'.items) = Len(inventory.items) - 1
                    /\ inventory'.gold = inventory.gold + 15
        /\ (last'.event \in {2, 3} /\ choice # 1) =>
              inventory' = inventory /\ player' = player

C22_NarrativeGuards == [][C22_GuardStep]_vars

\* A Sorcerer who had spent 30 mana on a special accepted the shrine: mana 90.
C22_Witness ==
    /\ last.op = "story_event" /\ last.event = 3 /\ last.choice = 1
    /\ player.name = "Sorcerer"
    /\ player.mana = 90

\* C23: the hero's attack, defense and maximum health never change in a
\* campaign: accepting the cursed weapon only appends a weapon item of
\* magnitude 5, its bonus is not applied, and using it in a battle fails.
C23_StatsStep ==
    /\ (player # NoPlayer /\ player' # NoPlayer) =>
          /\ player'.name = player.name
          /\ player'.attack = player.attack
          /\ player'.defense = player.defense
          /\ player'.max_health = player.max_health
    /\ (last'.op = "story_event" /\ last'.event = 4 /\ last'.choice = 1) =>
          /\ inventory'.items =
                Append(inventory.items,
                       [name |-> "cursed_sword_plus5", type |-> "weapon", effect |-> 5])
          /\ inventory'.gold = inventory.gold
          /\ player' = player
    /\ (pc = "player" /\ last'.op = "use_item" /\ last'.arg = "cursed_sword_plus5") =>
          /\ last'.out = "Can't use"
          /\ player' = player
          /\ Matches(inventory'.items, "cursed_sword_plus5") # {}

C23_StatsFixed == [][C23_StatsStep]_vars

\* The cursed sword was taken; the Wizard's attack is the 20 it started with.
C23_Witness ==
    /\ last.op = "story_event" /\ last.event = 4 /\ last.choice = 1
    /\ Matches(inventory.items, "cursed_sword_plus5") # {}
    /\ player.name = "Wizard"
    /\ player.attack = 20

\* C24: a monster's basic attack computes max(0, roll(20) + ATK - DEF of the
\* target), plus 15 when its d100 shows at most 30 and plus 0 otherwise, and
\* applies that amount to the hero; the monster's special changes nothing.
C24_EnemyStep ==
    pc = "unit" =>
        /\ last'.op = "enemy_attack_move" =>
              LET dmg == Max(0, last'.roll + enemy.attack - player.defense)
                         + (IF last'.psychic <= 30 THEN 15 ELSE 0)
              IN /\ last'.roll \in 1 .. 20
                 /\ player' = Damaged(player, dmg)
                 /\ enemy' = enemy
        /\ last'.op = "enemy_special_move" =>
              player' = player /\ enemy' = enemy /\ inventory' = inventory

C24_EnemyAttack == [][C24_EnemyStep]_vars

\* The Mind Flayer rolled a 20 with the psychic bonus on a fresh Wizard:
\* max(0, 20 + 35 - 15) + 15 = 55, of which the Wizard loses 55 - 15 = 40.
C24_Witness ==
    /\ pc = "called"
    /\ last = CallEnemyAttack(20, 30)
    /\ enemy.name = "Mind Flayer"
    /\ player.name = "Wizard"
    /\ player.health = 120 - 40

\* C25: the target's defense is subtracted twice on a basic attack: with the
\* die at k the target loses exactly min(health, max(0, max(0, k + ATK - DEF)
\* - DEF)); likewise the damage of a trap and the monster's +15 bonus are
\* reduced by the hero's defense.
C25_DefenseStep ==
    pc = "unit" =>
        /\ last'.op = "attack_move" =>
              LET once == Max(0, last'.roll + player.attack - enemy.defense) IN
              enemy.health - enemy'.health
                 = Min(enemy.health, Max(0, once - enemy.defense))
        /\ last'.op = "enemy_attack_move" =>
              LET once == Max(0, last'.roll + enemy.attack - player.defense)
                  bonus == IF last'.psychic <= 30 THEN 15 ELSE 0
              IN player.health - player'.health
                    = Min(player.health, Max(0, once + bonus - player.defense))
        /\ last'.op = "trap_event" =>
              LET dmg == IF last'.r <= 5 THEN 0
                         ELSE IF last'.r <= 15 THEN last'.d + 5
                         ELSE last'.d + 15
              IN player.health - player'.health
                    = Min(player.health, Max(0, dmg - player.defense))

C25_DefenseTwice == [][C25_DefenseStep]_vars

\* A fresh Wizard rolled a 1 against a fresh Mind Flayer: 1 + 20 - 18 = 3 is
\* left after the first subtraction, nothing after the second.
C25_Witness ==
    /\ pc = "called"
    /\ last = CallRoll("attack_move", 1)
    /\ player.name = "Wizard"
    /\ enemy.name = "Mind Flayer"
    /\ enemy.health = enemy.max_health

\* C26: at every player turn of a battle the stun flag is clear: a stun is
\* consumed by the enemy turn of the round it was set in, or the battle ends;
\* it never carries over, and no Flee fails while the monster is stunned.
C26_ClearAtPlayerTurn == pc = "player" => ~enemy_stunned

C26_RoundStep ==
    /\ (pc = "resolve" /\ enemy_stunned) => ~enemy_stunned'
    /\ last'.op = "flee_failed" => ~enemy_stunned /\ ~enemy_stunned'
    /\ (pc = "player" /\ pc' = "player") => ~enemy_stunned'

C26_StunCleared == []C26_ClearAtPlayerTurn /\ [][C26_RoundStep]_vars

\* A Wizard who had hit the monster failed to flee from it, no stun pending.
C26_Witness ==
    /\ last.op = "flee_failed"
    /\ pc = "resolve"
    /\ ~enemy_stunned
    /\ player.name = "Wizard"
    /\ enemy.health < enemy.max_health

\* C27: the boss flag implies a living hero: it is set only by a player action
\* that kills a boss, which attacks no more, so victory and the hero's death
\* exclude each other; a hero who dies in a battle, also of the attack after a
\* failed flee, gets no gold, no heal and no potion.
C27_VictorAlive ==
    /\ dragon_defeated => player.health > 0 /\ ending # "gameover"
    /\ ending = "gameover" => player.health = 0 /\ ~dragon_defeated
    /\ battle_end = "PlayerDied" => player.health = 0 /\ ~dragon_defeated

C27_DeathStep ==
    /\ (dragon_defeated' /\ ~dragon_defeated) =>
          /\ pc = "resolve"
          /\ enemy.is_boss /\ enemy.health = 0
          /\ last.op \in {"attack_move", "special_move"}
          /\ player.health > 0
          /\ player'.health >= player.health
    /\ (pc \in BattlePcs /\ battle_end' = "PlayerDied") =>
          /\ last'.op \in {"flee_failed", "enemy_attack_move"}
          /\ enemy.health > 0
          /\ inventory' = inventory
          /\ player' = [player EXCEPT !.health = 0]
          /\ dragon_defeated' = dragon_defeated

C27_VictoryOrDeath == []C27_VictorAlive /\ [][C27_DeathStep]_vars

\* The free attack after a failed flee killed the hero: game over, no reward.
C27_Witness ==
    /\ last.op = "flee_failed"
    /\ battle_end = "PlayerDied"
    /\ player.health = 0
    /\ ending = "gameover"

\* C28: accepting the wounded creature (vignette 2) also heals the hero: the
\* potion is consumed through use_item, so the health rises by min(magnitude,
\* max_health - health), the potion is removed and 15 gold are added.
C28_WolfStep ==
    (last'.op = "story_event" /\ last'.event = 2 /\ last'.choice = 1) =>
        LET items == inventory.items
            i == First(Matches(items, "healing_potion"))
        IN
        /\ Matches(items, "healing_potion") # {}
        /\ inventory'.items = Without(items, i)
        /\ inventory'.gold = inventory.gold + 15
        /\ player' = [player EXCEPT
                        !.health = @ + Min(items[i].effect, player.max_health - @)]

C28_WolfHeals == [][C28_WolfStep]_vars

\* A hurt hero healed the wolf and was healed, though not up to the maximum.
C28_Witness ==
    /\ last.op = "story_event" /\ last.event = 2 /\ last.choice = 1
    /\ player.health < player.max_health
    /\ player.health > 30

\* C29: in a battle against a monster that is not the boss every basic attack
\* of the hero, whatever the d20 shows, lowers the monster's health by at
\* least 1, and no other turn raises it; so a battle fought with Attack on
\* every turn ends, after at most as many rounds as the monster has health.
C29_InBrawl == pc \in BattlePcs /\ ~enemy.is_boss

C29_AttackStep ==
    C29_InBrawl =>
        /\ last'.op = "attack_move" /\ pc = "player" =>
              enemy'.health <= enemy.health - 1
        /\ pc' \in BattlePcs =>
              /\ enemy'.name = enemy.name
              /\ enemy'.health <= enemy.health
              /\ enemy.health <= enemy.max_health

C29_AttackOnlyEnds ==
    /\ [][C29_AttackStep]_vars
    /\ C29_InBrawl ~> (pc \notin BattlePcs)

C29_Witness ==
    /\ pc = "resolve"
    /\ last = CallRoll("attack_move", 1)
    /\ player.name = "Wizard"
    /\ enemy.name = "Flayed One"
    /\ enemy.health = 1

\* C30: after "play again" the menu is reached with the turn counter 0, the
\* boss-defeated flag false and no hero; the hero chosen next, after a won as
\* after a lost campaign, has full health, mana 100, the starting rage, gold
\* and inventory of its variant, in a campaign at turn 0.
C30_Start ==
    [Wizard |-> [hp |-> 120, rage |-> 0, gold |-> 20,
                 items |-> <<HealingPotion(30), HealingPotion(30)>>],
     Sorcerer |-> [hp |-> 80, rage |-> 0, gold |-> 30,
                   items |-> <<HealingPotion(20), ManaPotion(30)>>],
     Knight |-> [hp |-> 90, rage |-> 0, gold |-> 40,
                 items |-> <<HealingPotion(25)>>],
     Bard |-> [hp |-> 140, rage |-> 20, gold |-> 10,
               items |-> <<HealingPotion(40)>>],
     Zoomer |-> [hp |-> 100, rage |-> 0, gold |-> 35,
                 items |-> <<HealingPotion(25), HealingPotion(25)>>]]

C30_Fresh ==
    /\ player.name \in DOMAIN C30_Start
    /\ LET start == C30_Start[player.name] IN
       /\ player.health = start.hp
       /\ player.max_health = start.hp
       /\ player.mana = 100
       /\ player.max_mana = 100
       /\ player.rage = start.rage
       /\ inventory.gold = start.gold
       /\ inventory.items = start.items

C30_PlayAgainResets ==
    /\ last.op = "play_again" =>
          /\ pc = "menu"
          /\ last.out \in {"victory", "gameover"}
          /\ turns = 0
          /\ ~dragon_defeated
          /\ player = NoPlayer
          /\ inventory = NoInventory
    /\ (last.op = "initialize_player" /\ last.out # "") =>
          /\ pc = "loop"
          /\ turns = 0
          /\ ~dragon_defeated
          /\ C30_Fresh

\* A Knight chosen after a campaign that was won
C30_Witness ==
    /\ last = Call("initialize_player", "victory")
    /\ player.name = "Knight"
    /\ turns = 0

\* A Bard chosen after a campaign that was lost
C30_WitnessLoss ==
    /\ last = Call("initialize_player", "gameover")
    /\ player.name = "Bard"
    /\ player.rage = 20

====
